---- MODULE Spec2Model ----
(***************************************************************************)
(* Model of src/src/app.js: the startup and UX wrapper around the MindAR   *)
(* engine and the A-Frame scene.  The state is the three module-level      *)
(* flags, the DOM properties the script writes, and the position of every  *)
(* invocation of the asynchronous start-button click handler.  Every       *)
(* listener is one action: handlers run to completion on the event loop,   *)
(* and an async handler is cut at each of its await points.                *)
(***************************************************************************)
EXTENDS Naturals, FiniteSets

\* Bounds of the model (not program constants).
MaxClicks == 2      \* invocations of the start-button click handler
MaxAlerts == 2      \* alert() dialogs shown
MaxReveals == 2     \* executions of the body of checkHideOverlay's if

Procs == 1..MaxClicks

\* The texts handed to logStatus.
MsgInitial   == "(markup)"
MsgRequest   == "Requesting camera access (user gesture) ..."
MsgStarting  == "Starting AR engine - initializing camera..."
MsgNoSystem  == "Error: AR system not available."
MsgStartFail == "AR start failed. Is camera permission granted?"
MsgEngReady  == "AR engine ready."
MsgEngError  == "AR engine error - camera unavailable or permission denied."
MsgReveal    == "AR ready - point camera at the image target."
MsgStall     == "Waiting for camera - if nothing happens, enable camera permission and reload."

\* A DOM property the script has not written yet keeps the value of the markup.
Markup == "(markup)"

VARIABLES
  arReady,          \* let arReady
  modelReady,       \* let modelReady
  arStarted,        \* let arStarted
  statusText,       \* statusEl.textContent
  overlayDisplay,   \* overlay.style.display
  guideDisplay,     \* guideEl.style.display
  gltfVisible,      \* gltfModel's attribute 'visible'
  startBtnDisabled, \* startBtn.disabled
  pc,               \* position of each invocation of the click handler
  cam,              \* outcome of warmCameraPermission in each invocation
  heldStreams,      \* invocations holding a camera stream with live tracks
  arSystem,         \* scene.systems['mindar-image-system'] is defined
  startCalls,       \* invocations of arSystem.start()
  alerts,           \* alert() dialogs shown
  reveals,          \* executions of the body of checkHideOverlay's if
  timer,            \* the 8 s timeout: "unset", "armed", "fired"
  engineFailed,     \* the engine has reported a failure (start rejected, arError)
  targetSeq         \* history: "found" right after a targetFound event,
                    \* "foundLost" right after a targetLost event that directly
                    \* followed a targetFound event, "other" otherwise

flags == <<arReady, modelReady, arStarted>>
dom == <<statusText, overlayDisplay, guideDisplay, gltfVisible, startBtnDisabled>>
async == <<pc, cam, heldStreams>>
counters == <<startCalls, alerts, reveals>>
vars == <<arReady, modelReady, arStarted, statusText, overlayDisplay, guideDisplay,
          gltfVisible, startBtnDisabled, pc, cam, heldStreams, arSystem, startCalls,
          alerts, reveals, timer, engineFailed, targetSeq>>

Init ==
  /\ arReady = FALSE
  /\ modelReady = FALSE
  /\ arStarted = FALSE
  /\ statusText = MsgInitial
  /\ overlayDisplay = Markup
  /\ guideDisplay = Markup
  /\ gltfVisible = Markup
  /\ startBtnDisabled = FALSE
  /\ pc = [p \in Procs |-> "idle"]
  /\ cam = [p \in Procs |-> "none"]
  /\ heldStreams = {}
  /\ arSystem \in BOOLEAN
  /\ startCalls = 0
  /\ alerts = 0
  /\ reveals = 0
  /\ timer = "unset"
  /\ engineFailed = FALSE
  /\ targetSeq = "other"

\* Every handler but the two target listeners ends a targetFound/targetLost pair.
Other == targetSeq' = "other"

\* logStatus(txt): statusEl.textContent = txt (the console line is not state).
logStatus(txt) == statusText' = txt

\* Variant of checkHideOverlay that reveals as soon as either flag is set.
checkHideOverlay_eitherFlag(txt) ==
  IF arReady' \/ modelReady'
    THEN /\ overlayDisplay' = "none"
         /\ guideDisplay' = "block"
         /\ logStatus(MsgReveal)
         /\ reveals' = reveals + 1
    ELSE /\ logStatus(txt)
         /\ UNCHANGED <<overlayDisplay, guideDisplay, reveals>>

\* Variant of checkHideOverlay that runs its body only while the overlay is shown.
checkHideOverlay_onlyOnce(txt) ==
  IF arReady' /\ modelReady' /\ overlayDisplay # "none"
    THEN /\ overlayDisplay' = "none"
         /\ guideDisplay' = "block"
         /\ logStatus(MsgReveal)
         /\ reveals' = reveals + 1
    ELSE /\ logStatus(txt)
         /\ UNCHANGED <<overlayDisplay, guideDisplay, reveals>>


\* Variant of checkHideOverlay that does not touch the guidance indicator.
checkHideOverlay_keepsGuide(txt) ==
  IF arReady' /\ modelReady'
    THEN /\ overlayDisplay' = "none"
         /\ logStatus(MsgReveal)
         /\ reveals' = reveals + 1
         /\ UNCHANGED guideDisplay
    ELSE /\ logStatus(txt)
         /\ UNCHANGED <<overlayDisplay, guideDisplay, reveals>>

\* checkHideOverlay(), called at the end of a readiness handler; txt is the status
\* text that handler has written before the call (or the current one).
checkHideOverlay(txt) ==
  IF arReady' /\ modelReady'
    THEN /\ overlayDisplay' = "none"
         /\ guideDisplay' = "block"
         /\ logStatus(MsgReveal)
         /\ reveals' = reveals + 1
    ELSE /\ logStatus(txt)
         /\ UNCHANGED <<overlayDisplay, guideDisplay, reveals>>

\* scene 'arReady' listener.
OnArReady ==
  /\ (modelReady => reveals < MaxReveals)
  /\ arReady' = TRUE
  /\ UNCHANGED modelReady
  /\ checkHideOverlay(MsgEngReady)
  /\ Other
  /\ UNCHANGED <<arStarted, gltfVisible, startBtnDisabled, async, arSystem,
                 startCalls, alerts, timer, engineFailed>>

\* Variant of the arError listener that re-arms the start sequence.
OnArError_resetsStarted ==
  /\ alerts < MaxAlerts
  /\ logStatus(MsgEngError)
  /\ alerts' = alerts + 1
  /\ engineFailed' = TRUE
  /\ arStarted' = FALSE
  /\ Other
  /\ UNCHANGED <<arReady, modelReady, overlayDisplay, guideDisplay, gltfVisible,
                 startBtnDisabled, async, arSystem, startCalls, reveals, timer>>

\* Variant of the arError listener that takes the engine's readiness back.
OnArError_resetsReady ==
  /\ alerts < MaxAlerts
  /\ logStatus(MsgEngError)
  /\ alerts' = alerts + 1
  /\ engineFailed' = TRUE
  /\ arReady' = FALSE
  /\ Other
  /\ UNCHANGED <<modelReady, arStarted, overlayDisplay, guideDisplay, gltfVisible,
                 startBtnDisabled, async, arSystem, startCalls, reveals, timer>>

\* scene 'arError' listener.
OnArError ==
  /\ alerts < MaxAlerts
  /\ logStatus(MsgEngError)
  /\ alerts' = alerts + 1
  /\ engineFailed' = TRUE
  /\ Other
  /\ UNCHANGED <<flags, overlayDisplay, guideDisplay, gltfVisible, startBtnDisabled,
                 async, arSystem, startCalls, reveals, timer>>

\* gltfModel 'model-loaded' listener.
OnModelLoaded ==
  /\ (arReady => reveals < MaxReveals)
  /\ modelReady' = TRUE
  /\ UNCHANGED arReady
  /\ checkHideOverlay(statusText)
  /\ Other
  /\ UNCHANGED <<arStarted, gltfVisible, startBtnDisabled, async, arSystem,
                 startCalls, alerts, timer, engineFailed>>


\* Variant of the targetFound listener that takes a found target as proof that
\* the engine is ready.
OnTargetFound_marksReady ==
  /\ gltfVisible' = "true"
  /\ guideDisplay' = "none"
  /\ arReady' = TRUE
  /\ targetSeq' = "found"
  /\ UNCHANGED <<modelReady, arStarted, statusText, overlayDisplay, startBtnDisabled,
                 async, arSystem, counters, timer, engineFailed>>

\* targetEntity 'targetFound' listener.
OnTargetFound ==
  /\ gltfVisible' = "true"
  /\ guideDisplay' = "none"
  /\ targetSeq' = "found"
  /\ UNCHANGED <<flags, statusText, overlayDisplay, startBtnDisabled, async, arSystem,
                 counters, timer, engineFailed>>

\* Variant of the targetLost listener that leaves the guidance indicator alone.
OnTargetLost_keepsGuide ==
  /\ gltfVisible' = "false"
  /\ targetSeq' = IF targetSeq = "found" THEN "foundLost" ELSE "other"
  /\ UNCHANGED <<flags, statusText, overlayDisplay, guideDisplay, startBtnDisabled,
                 async, arSystem, counters, timer, engineFailed>>

\* targetEntity 'targetLost' listener.
OnTargetLost ==
  /\ gltfVisible' = "false"
  /\ guideDisplay' = "block"
  /\ targetSeq' = IF targetSeq = "found" THEN "foundLost" ELSE "other"
  /\ UNCHANGED <<flags, statusText, overlayDisplay, startBtnDisabled, async, arSystem,
                 counters, timer, engineFailed>>

\* warmCameraPermission() up to its first await, in invocation p of the click
\* handler: without the camera API it returns at once, otherwise getUserMedia is
\* pending.  Either way the caller's await yields to the event loop.
warmCameraPermission(p, api) ==
  IF api
    THEN /\ pc' = [pc EXCEPT ![p] = "getUserMedia"]
         /\ UNCHANGED cam
    ELSE /\ pc' = [pc EXCEPT ![p] = "warmed"]
         /\ cam' = [cam EXCEPT ![p] = "unavailable"]

\* startBtn 'click' listener up to its first await.  Invocations are numbered in
\* the order of the clicks.
OnStartClick(p) ==
  /\ pc[p] = "idle"
  /\ \A q \in Procs : q < p => pc[q] # "idle"
  /\ startBtnDisabled' = TRUE
  /\ logStatus(MsgRequest)
  /\ \E api \in BOOLEAN : warmCameraPermission(p, api)
  /\ Other
  /\ UNCHANGED <<flags, overlayDisplay, guideDisplay, gltfVisible, heldStreams, arSystem,
                 counters, timer, engineFailed>>


\* Variant of the resolution of getUserMedia that leaves the tracks running.
GumResolve_keepsStream(p) ==
  /\ pc[p] = "getUserMedia"
  /\ heldStreams' = heldStreams \cup {p}
  /\ cam' = [cam EXCEPT ![p] = "granted"]
  /\ pc' = [pc EXCEPT ![p] = "warmed"]
  /\ Other
  /\ UNCHANGED <<flags, dom, arSystem, counters, timer, engineFailed>>

\* getUserMedia resolves: the stream's tracks are stopped and
\* warmCameraPermission returns.
GumResolve(p) ==
  /\ pc[p] = "getUserMedia"
  /\ heldStreams' = (heldStreams \cup {p}) \ {p}
  /\ cam' = [cam EXCEPT ![p] = "granted"]
  /\ pc' = [pc EXCEPT ![p] = "warmed"]
  /\ Other
  /\ UNCHANGED <<flags, dom, arSystem, counters, timer, engineFailed>>

\* Variant of the rejection of getUserMedia without the catch: the error leaves
\* warmCameraPermission and ends the click handler.
GumReject_aborts(p) ==
  /\ pc[p] = "getUserMedia"
  /\ cam' = [cam EXCEPT ![p] = "denied"]
  /\ pc' = [pc EXCEPT ![p] = "done"]
  /\ Other
  /\ UNCHANGED <<flags, dom, heldStreams, arSystem, counters, timer, engineFailed>>

\* getUserMedia rejects: the catch logs a warning and warmCameraPermission returns.
GumReject(p) ==
  /\ pc[p] = "getUserMedia"
  /\ cam' = [cam EXCEPT ![p] = "denied"]
  /\ pc' = [pc EXCEPT ![p] = "warmed"]
  /\ Other
  /\ UNCHANGED <<flags, dom, heldStreams, arSystem, counters, timer, engineFailed>>

\* Variant of the guard of startAR that never returns early.
AlreadyStarted_never == FALSE

\* The guard of startAR: if (arStarted) return.
AlreadyStarted == arStarted

\* startAR() up to its await, called when the click handler resumes after
\* warmCameraPermission.  arSystem.start() either returns a pending promise or
\* throws at once into the catch.
startAR(p) ==
  /\ pc[p] = "warmed"
  /\ Other
  /\ IF AlreadyStarted
       THEN /\ pc' = [pc EXCEPT ![p] = "done"]
            /\ UNCHANGED <<arStarted, statusText, startCalls, engineFailed>>
       ELSE /\ arStarted' = TRUE
            /\ IF ~arSystem
                 THEN /\ logStatus(MsgNoSystem)
                      /\ pc' = [pc EXCEPT ![p] = "done"]
                      /\ UNCHANGED <<startCalls, engineFailed>>
                 ELSE /\ startCalls' = startCalls + 1
                      /\ \/ /\ logStatus(MsgStarting)
                            /\ pc' = [pc EXCEPT ![p] = "starting"]
                            /\ UNCHANGED engineFailed
                         \/ /\ logStatus(MsgStartFail)
                            /\ pc' = [pc EXCEPT ![p] = "done"]
                            /\ engineFailed' = TRUE
  /\ UNCHANGED <<arReady, modelReady, overlayDisplay, guideDisplay, gltfVisible,
                 startBtnDisabled, cam, heldStreams, arSystem, alerts, reveals,
                 timer>>

\* The promise of arSystem.start() resolves: startAR and the click handler return.
StartResolve(p) ==
  /\ pc[p] = "starting"
  /\ pc' = [pc EXCEPT ![p] = "done"]
  /\ Other
  /\ UNCHANGED <<flags, dom, cam, heldStreams, arSystem, counters, timer, engineFailed>>

\* Variant of the catch of startAR with a retry path: it resets arStarted.
StartReject_retry(p) ==
  /\ pc[p] = "starting"
  /\ logStatus(MsgStartFail)
  /\ engineFailed' = TRUE
  /\ arStarted' = FALSE
  /\ pc' = [pc EXCEPT ![p] = "done"]
  /\ Other
  /\ UNCHANGED <<arReady, modelReady, overlayDisplay, guideDisplay, gltfVisible,
                 startBtnDisabled, cam, heldStreams, arSystem, counters, timer>>

\* Variant of the catch of startAR that also raises the alert of the arError listener.
StartReject_alerts(p) ==
  /\ pc[p] = "starting"
  /\ logStatus(MsgStartFail)
  /\ alerts' = alerts + 1
  /\ engineFailed' = TRUE
  /\ pc' = [pc EXCEPT ![p] = "done"]
  /\ Other
  /\ UNCHANGED <<flags, overlayDisplay, guideDisplay, gltfVisible, startBtnDisabled,
                 cam, heldStreams, arSystem, startCalls, reveals, timer>>


\* Variant of the rejection of arSystem.start() without the catch: the error
\* leaves startAR and the click handler uncaught, and no status is written.
StartReject_uncaught(p) ==
  /\ pc[p] = "starting"
  /\ engineFailed' = TRUE
  /\ pc' = [pc EXCEPT ![p] = "uncaught"]
  /\ Other
  /\ UNCHANGED <<flags, dom, cam, heldStreams, arSystem, counters, timer>>


\* Variant of the catch of startAR that gives the start button back for a retry.
StartReject_reenables(p) ==
  /\ pc[p] = "starting"
  /\ logStatus(MsgStartFail)
  /\ engineFailed' = TRUE
  /\ startBtnDisabled' = FALSE
  /\ pc' = [pc EXCEPT ![p] = "done"]
  /\ Other
  /\ UNCHANGED <<flags, overlayDisplay, guideDisplay, gltfVisible, cam, heldStreams,
                 arSystem, counters, timer>>

\* The promise of arSystem.start() rejects: the catch of startAR.
StartReject(p) ==
  /\ pc[p] = "starting"
  /\ logStatus(MsgStartFail)
  /\ engineFailed' = TRUE
  /\ pc' = [pc EXCEPT ![p] = "done"]
  /\ Other
  /\ UNCHANGED <<flags, overlayDisplay, guideDisplay, gltfVisible, startBtnDisabled,
                 cam, heldStreams, arSystem, counters, timer>>

\* previewBtn 'click' listener: window.open changes nothing on this page.
OnPreviewClick ==
  /\ Other
  /\ UNCHANGED <<flags, dom, async, arSystem, counters, timer, engineFailed>>

\* window 'load' listener: arms the 8000 ms timeout.
OnLoad ==
  /\ timer = "unset"
  /\ timer' = "armed"
  /\ Other
  /\ UNCHANGED <<flags, dom, async, arSystem, counters, engineFailed>>


\* Variant of the timeout callback that keeps quiet once an error was reported.
OnTimeout_quietAfterError ==
  /\ timer = "armed"
  /\ timer' = "fired"
  /\ IF ~arReady /\ ~engineFailed THEN logStatus(MsgStall) ELSE UNCHANGED statusText
  /\ Other
  /\ UNCHANGED <<flags, overlayDisplay, guideDisplay, gltfVisible, startBtnDisabled,
                 async, arSystem, counters, engineFailed>>

\* Variant of the timeout callback that also waits for the model.
OnTimeout_alsoModel ==
  /\ timer = "armed"
  /\ timer' = "fired"
  /\ IF ~(arReady /\ modelReady) THEN logStatus(MsgStall) ELSE UNCHANGED statusText
  /\ Other
  /\ UNCHANGED <<flags, overlayDisplay, guideDisplay, gltfVisible, startBtnDisabled,
                 async, arSystem, counters, engineFailed>>

\* The callback of the 8000 ms timeout.
OnTimeout ==
  /\ timer = "armed"
  /\ timer' = "fired"
  /\ IF ~arReady THEN logStatus(MsgStall) ELSE UNCHANGED statusText
  /\ Other
  /\ UNCHANGED <<flags, overlayDisplay, guideDisplay, gltfVisible, startBtnDisabled,
                 async, arSystem, counters, engineFailed>>

Next ==
  \/ OnArReady
  \/ OnArError
  \/ OnModelLoaded
  \/ OnTargetFound
  \/ OnTargetLost
  \/ \E p \in Procs : OnStartClick(p)
  \/ \E p \in Procs : GumResolve(p)
  \/ \E p \in Procs : GumReject(p)
  \/ \E p \in Procs : startAR(p)
  \/ \E p \in Procs : StartResolve(p)
  \/ \E p \in Procs : StartReject(p)
  \/ OnPreviewClick
  \/ OnLoad
  \/ OnTimeout

Spec == Init /\ [][Next]_vars

TypeOK ==
  /\ arReady \in BOOLEAN /\ modelReady \in BOOLEAN /\ arStarted \in BOOLEAN
  /\ startBtnDisabled \in BOOLEAN /\ arSystem \in BOOLEAN /\ engineFailed \in BOOLEAN
  /\ overlayDisplay \in {Markup, "none"}
  /\ guideDisplay \in {Markup, "none", "block"}
  /\ gltfVisible \in {Markup, "true", "false"}
  /\ pc \in [Procs -> {"idle", "getUserMedia", "warmed", "starting", "done"}]
  /\ cam \in [Procs -> {"none", "unavailable", "granted", "denied"}]
  /\ heldStreams \subseteq Procs
  /\ timer \in {"unset", "armed", "fired"}

(***************************************************************************)
(* Derived notions used by the properties.                                 *)
(***************************************************************************)
\* Every click handler that was invoked has returned.
Settled == \A p \in Procs : pc[p] \in {"idle", "done"}

\* The click handlers that have returned.
Returned == {p \in Procs : pc[p] = "done"}

\* A step in which arSystem.start() fails: its promise rejects, or it throws.
StartFails ==
  \E p \in Procs : StartReject(p) \/ (startAR(p) /\ engineFailed' /\ ~engineFailed)

\* A step of the start request: the click listener or one of its continuations.
StartRequestStep ==
  \E p \in Procs : OnStartClick(p) \/ GumResolve(p) \/ GumReject(p) \/ startAR(p)

ReadyTexts == {MsgEngReady, MsgReveal}

(***************************************************************************)
(* Properties.                                                             *)
(***************************************************************************)

\* C1: in every reachable state the overlay is hidden exactly when both arReady
\* and modelReady are true, whatever the order and repetition of the events.
C1_OverlayHiddenIffBothReady ==
  (overlayDisplay = "none") <=> (arReady /\ modelReady)

C1_Witness == arReady /\ modelReady /\ overlayDisplay = "none" /\ reveals = 1

\* C2 as stated: once two or more start requests have run to completion,
\* arSystem.start() has been invoked exactly once.
C2_ExactlyOneStart ==
  (Settled /\ Cardinality(Returned) >= 2) => startCalls = 1

\* C2 amended: arSystem.start() is invoked at most once under every interleaving
\* of the start requests; once two or more requests have run to completion it has
\* been invoked exactly once if the AR system is available and not at all if it
\* is missing.
C2_AtMostOneStart ==
  /\ startCalls <= 1
  /\ (Settled /\ Cardinality(Returned) >= 2) => startCalls = (IF arSystem THEN 1 ELSE 0)

C2_Witness == Settled /\ Cardinality(Returned) >= 2 /\ startCalls = 1

\* C3 as stated: the body of the reveal executes once per session and never again
\* on later events.
C3_RevealBodyOnce == reveals <= 1

\* C3 amended: the overlay goes from shown to hidden exactly once, at the event
\* that makes both flags true, and is never shown again; the body of the reveal
\* executes at that event and again at every later arReady or model-loaded event.
C3_RevealTransitionOnce ==
  [][ /\ (overlayDisplay # "none" /\ overlayDisplay' = "none")
           => (~(arReady /\ modelReady) /\ arReady' /\ modelReady' /\ reveals = 0)
      /\ (overlayDisplay = "none" => overlayDisplay' = "none")
      /\ (reveals' # reveals) <=> ((OnArReady \/ OnModelLoaded) /\ arReady' /\ modelReady')
      /\ (reveals' # reveals) => (reveals' = reveals + 1 /\ statusText' = MsgReveal)
    ]_vars

C3_Witness == reveals = 2 /\ overlayDisplay = "none" /\ statusText = MsgReveal

\* C4: after arSystem.start() has failed (failure text shown, arStarted true), a
\* later start request is a no-op: no step of it invokes the engine start or
\* changes the status text or any of the three flags.
C4_LaterStartRequestNoOp ==
  [][ (engineFailed /\ arStarted /\ statusText = MsgStartFail /\ StartRequestStep)
        => (startCalls' = startCalls /\ statusText' = statusText /\ UNCHANGED flags)
    ]_vars

\* C5: the arError listener leaves arReady, modelReady and arStarted unchanged;
\* it only writes the failure status and raises the alert.
C5_ArErrorKeepsFlags ==
  [][ OnArError
        => /\ UNCHANGED flags
           /\ statusText' = MsgEngError
           /\ alerts' = alerts + 1
           /\ UNCHANGED <<overlayDisplay, guideDisplay, gltfVisible, startBtnDisabled,
                          async, startCalls, reveals, timer>>
    ]_vars

C5_Witness ==
  arReady /\ modelReady /\ arStarted /\ alerts >= 1 /\ statusText = MsgEngError

C7_StartFailureAlerts ==
  [][ StartFails => (statusText' = MsgStartFail /\ alerts' = alerts + 1) ]_vars

\* C7 amended: a rejected or throwing arSystem.start() is surfaced by the failure
\* status text alone, without an alert; only the arError event is surfaced by
\* both a failure status text and an alert.
C7_StartFailureStatusOnly ==
  [][ /\ StartFails => (statusText' = MsgStartFail /\ alerts' = alerts)
      /\ OnArError => (statusText' = MsgEngError /\ alerts' = alerts + 1)
    ]_vars

C7_Witness == engineFailed /\ statusText = MsgStartFail /\ alerts = 0

\* C8: a targetFound event followed immediately by a targetLost event leaves the
\* model invisible and the guidance indicator shown, whatever the flags.
C8_FoundThenLost ==
  targetSeq = "foundLost" => (gltfVisible = "false" /\ guideDisplay = "block")

C8_Witness ==
  targetSeq = "foundLost" /\ arReady /\ modelReady /\ arStarted /\ gltfVisible = "false"

\* C9: arReady, modelReady and arStarted start false and no step ever sets one of
\* them back to false.
C9_FlagsMonotonic ==
  /\ ~arReady /\ ~modelReady /\ ~arStarted
  /\ [][ (arReady => arReady') /\ (modelReady => modelReady') /\ (arStarted => arStarted')
       ]_vars

C9_Witness ==
  arReady /\ modelReady /\ arStarted /\ engineFailed /\ alerts >= 1 /\ timer = "fired"

\* C10 as stated: once the engine has reported failure, no later event produces
\* the reveal or a ready status, and the engine start is not invoked again.
C10_FailedIsTerminal ==
  [][ engineFailed
        => /\ reveals' = reveals
           /\ (statusText' \in ReadyTexts => statusText' = statusText)
           /\ (startCalls >= 1 => startCalls' = startCalls)
    ]_vars

\* C10 amended: once a start request has set arStarted and the engine has
\* reported failure, arSystem.start() is never invoked again and arStarted is
\* never reset; the script keeps no failed state, though, and a later arReady
\* event still writes a ready status (and reveals once modelReady is true).
C10_NoRestartAfterFailure ==
  [][ /\ (engineFailed /\ arStarted) => (startCalls' = startCalls /\ arStarted')
      /\ (engineFailed /\ OnArReady) => statusText' \in ReadyTexts
    ]_vars

C10_Witness ==
  engineFailed /\ arStarted /\ startCalls = 1 /\ Settled /\ statusText = MsgReveal

\* C11 as stated: the 8-second check emits the stall hint exactly when neither
\* the engine-ready signal nor an error signal has arrived before it runs.
C11_StallHintUnlessError ==
  [][ OnTimeout => ((statusText' = MsgStall) <=> (~arReady /\ ~engineFailed)) ]_vars

\* C11 amended: the 8-second check emits the stall hint exactly when arReady is
\* false as it runs; an error signal that arrived earlier does not suppress it,
\* and the hint then replaces the failure text.
C11_StallHintIffNotReady ==
  [][ OnTimeout
        => /\ (statusText' = MsgStall) <=> ~arReady
           /\ (engineFailed /\ ~arReady) => (statusText' = MsgStall /\ statusText # MsgStall)
    ]_vars

C11_Witness ==
  timer = "fired" /\ engineFailed /\ ~arReady /\ statusText = MsgStall

\* C12 as stated: every error of an asynchronous call (camera pre-acquisition
\* denied, engine start rejected, arError) is caught and converted to status
\* text: after the step the status text reports it and no handler has ended
\* with an uncaught error.
C12_EveryErrorInStatus ==
  [][ /\ ((\E p \in Procs : GumReject(p)) \/ StartFails \/ OnArError)
           => statusText' \in {MsgStartFail, MsgEngError}
      /\ \A p \in Procs : pc'[p] # "uncaught"
    ]_vars

\* C12 amended: every such error is caught where the call is made and no handler
\* ends with an uncaught error; a failed engine start and an arError event are
\* converted to status text, while a denied camera pre-acquisition is only
\* logged to the console and leaves the status text as it was.
C12_ErrorsCaught ==
  [][ /\ StartFails => statusText' = MsgStartFail
      /\ OnArError => statusText' = MsgEngError
      /\ \A p \in Procs :
           GumReject(p) => (statusText' = statusText /\ pc'[p] = "warmed")
      /\ \A p \in Procs : pc'[p] \in {"idle", "getUserMedia", "warmed", "starting", "done"}
    ]_vars

C12_Witness ==
  \E p \in Procs :
    cam[p] = "denied" /\ pc[p] = "done" /\ engineFailed /\ statusText = MsgStartFail

\* C13: within a start request arStarted is set before the camera
\* pre-acquisition is attempted, so whenever a pre-acquisition is pending
\* arStarted is already true.
C13_StartedBeforeCamera ==
  \A p \in Procs : pc[p] = "getUserMedia" => arStarted

\* C14: with both flags already true, a further arReady or model-loaded event
\* has no observable effect: flags, overlay, guidance indicator and status text
\* stay as they were.
C14_RepeatedSignalIdempotent ==
  [][ (arReady /\ modelReady /\ (OnArReady \/ OnModelLoaded))
        => UNCHANGED <<flags, overlayDisplay, guideDisplay, statusText>>
    ]_vars

\* C14 amended: with both flags already true, a further arReady or model-loaded
\* event leaves the flags and the overlay unchanged and applies the target state
\* of the reveal again: the guidance indicator is set to 'block' and the status
\* text to the ready message, whatever other handlers wrote there in between.
C14_RepeatedSignalReapplies ==
  [][ (arReady /\ modelReady /\ (OnArReady \/ OnModelLoaded))
        => /\ UNCHANGED <<flags, overlayDisplay>>
           /\ guideDisplay' = "block"
           /\ statusText' = MsgReveal
    ]_vars

C14_Witness ==
  reveals = 2 /\ engineFailed /\ alerts = 1 /\ statusText = MsgReveal /\ guideDisplay = "block"

\* C15: the 8-second check is passive: it changes none of the three flags,
\* invokes no engine start and touches no pending start request, and it writes
\* the informational message if and only if arReady is false as it runs,
\* whatever modelReady and arStarted are.
C15_TimeoutPassive ==
  [][ OnTimeout
        => /\ UNCHANGED <<flags, startCalls, pc, startBtnDisabled, overlayDisplay>>
           /\ IF arReady THEN statusText' = statusText ELSE statusText' = MsgStall
    ]_vars

C15_Witness ==
  timer = "fired" /\ ~arReady /\ modelReady /\ arStarted /\ statusText = MsgStall

\* C16: a stream obtained by the camera pre-acquisition is released before the
\* handler goes on: no invocation of the click handler holds a live stream
\* between two steps, so none is held when arSystem.start() is invoked.
C16_NoStreamHeld == heldStreams = {}

C16_Witness ==
  \E p \in Procs : cam[p] = "granted" /\ pc[p] = "starting" /\ heldStreams = {}

\* C17: arReady is written only by the arReady listener, modelReady only by the
\* model-loaded listener, arStarted only by startAR; the targetFound,
\* targetLost, arError, preview and timeout handlers leave the three flags and
\* the overlay unchanged.
C17_SingleWriter ==
  [][ /\ (arReady' # arReady) => OnArReady
      /\ (modelReady' # modelReady) => OnModelLoaded
      /\ (arStarted' # arStarted) => \E p \in Procs : startAR(p)
      /\ (OnTargetFound \/ OnTargetLost \/ OnArError \/ OnPreviewClick \/ OnTimeout)
           => UNCHANGED <<flags, overlayDisplay>>
    ]_vars

C17_Witness ==
  /\ arReady /\ modelReady /\ arStarted /\ overlayDisplay = "none"
  /\ targetSeq = "foundLost" /\ alerts >= 1 /\ timer = "fired"

\* C18: when the AR system is missing as startAR runs, startAR sets arStarted,
\* writes 'Error: AR system not available.' and invokes no engine start; every
\* later startAR in the session returns at its guard, writing nothing and
\* invoking no engine start.
C18_MissingSystem ==
  [][ \A p \in Procs :
        startAR(p)
          => IF arStarted
               THEN /\ UNCHANGED <<flags, statusText, startCalls>>
                    /\ pc'[p] = "done"
               ELSE ~arSystem
                      => /\ arStarted'
                         /\ statusText' = MsgNoSystem
                         /\ startCalls' = startCalls
                         /\ pc'[p] = "done"
    ]_vars

C18_Witness ==
  /\ ~arSystem /\ arStarted /\ startCalls = 0
  /\ Settled /\ Cardinality(Returned) >= 2
  /\ statusText = MsgRequest

\* C19: the model and the guidance indicator are never visible together: when
\* the model's visible attribute is 'true', the indicator's display is 'none'.
C19_GuideHiddenWhileModelVisible ==
  gltfVisible = "true" => guideDisplay = "none"

\* C20: the start button is disabled at the first click, before any await, and
\* nothing enables it again: once a click handler has run, and in particular
\* once arStarted is true, the button is disabled.
C20_StartedImpliesDisabled ==
  (arStarted \/ \E p \in Procs : pc[p] # "idle") => startBtnDisabled

C20_Witness ==
  arStarted /\ startBtnDisabled /\ engineFailed /\ Settled /\ statusText = MsgStartFail

====
